---- MODULE Spec2Model ----
(***************************************************************************)
(* Model of Scripts/crop_screenshots.py: the tile registry                 *)
(* (ScreenshotProcessor), the coordinate grid model (Screenshot) and the   *)
(* compositor (composite_screenshot_tiles).                                *)
(*                                                                         *)
(* Python values are tagged records: a Screenshot object is                *)
(* [type |-> "Screenshot", ...], a str is [type |-> "str", ...] and None   *)
(* is [type |-> "NoneType"].  An exception leaving a call is recorded by   *)
(* its class name in ret.exc ("None" when the call returned normally).     *)
(***************************************************************************)
EXTENDS Integers, Sequences, FiniteSets, TLC

VARIABLES
    screenshots,         \* ScreenshotProcessor.screenshots: list[Screenshot]
    mapped_screenshots,  \* ScreenshotProcessor.mapped_screenshots: dict[str, Screenshot]
    TILE_CROP_SIZE,      \* module global
    TILE_OVERLAP,        \* module global
    ret,                 \* outcome of the last call made on the processor
    pc,                  \* "idle", "pasting" (inside composite_screenshot_tiles) or
                         \* "done" (the script has run to its end or died of an exception)
    tiles,               \* argument of composite_screenshot_tiles
    map_image,           \* local of composite_screenshot_tiles: the canvas
    sorted_tiles,        \* local of composite_screenshot_tiles
    next_tile,           \* position of the for loop over sorted_tiles
    loaded,              \* Screenshot objects holding an image payload
                         \* (_screenshot_image or _tile_image is not None)
    saved,               \* the image file written by map_image.save, or None
    tile_files,          \* the tile files create_tile has saved
    output_tiles,        \* the files make_initial_tiles has saved, by path
    gui,                 \* the TileAlignmentGUI object, None while no GUI is open
    limits               \* the arguments x_coods_start, z_coord_start,
                         \* max_x_tile_count, max_z_tile_count of make_large_map

vars == <<screenshots, mapped_screenshots, TILE_CROP_SIZE, TILE_OVERLAP, ret,
          pc, tiles, map_image, sorted_tiles, next_tile, loaded, saved,
          tile_files, output_tiles, gui, limits>>

registry == <<screenshots, mapped_screenshots>>
config == <<TILE_CROP_SIZE, TILE_OVERLAP>>
compositor == <<pc, tiles, map_image, sorted_tiles, next_tile, loaded, saved>>
disk == <<tile_files, output_tiles>>
ui == <<gui, limits>>

----------------------------------------------------------------------------
(* Bounds of the model *)

MaxTiles == 3      \* most add_screenshot calls made on one registry
TileFileSize == 2  \* side of the tile images found on disk
MaxGrid == 2       \* lattices have MaxGrid columns and MaxGrid rows

\* world coordinates of the tiles added one by one, and the offsets
\* find_neighbour is asked about
XCoords == {-1, 0, 1}
ZCoords == {0, 1}
Offsets == {-1, 0, 1}

----------------------------------------------------------------------------
(* Python values *)

None == [type |-> "NoneType"]

\* Screenshot.__init__: src tells which of the two file paths the object was
\* given ("raw": screenshot_filepath, "tile": tile_filepath).
Screenshot(x, z, src) ==
    [type |-> "Screenshot", xCoordWS |-> x, zCoordWS |-> z, src |-> src]

\* tile.tile_image.size, for a tile whose image is on disk
tile_image_size(tile) == <<TileFileSize, TileFileSize>>

AllScreenshots ==
    {Screenshot(x, z, src) : x \in XCoords, z \in ZCoords, src \in {"raw", "tile"}}

\* the tiles find_neighbour is asked about: one per coordinate pair
Probes == {Screenshot(x, z, "raw") : x \in XCoords, z \in ZCoords}

make_coordinate_string(x, z) ==
    "Screenshot_" \o ToString(x) \o "_" \o ToString(z)

coordinate_string(self) == make_coordinate_string(self.xCoordWS, self.zCoordWS)

Screenshot__eq__(self, other) ==
    IF other.type # "Screenshot" THEN FALSE
    ELSE self.xCoordWS = other.xCoordWS /\ self.zCoordWS = other.zCoordWS

\* hash(str) is modelled by the string: equal strings, equal hashes
Screenshot__hash__(self) == coordinate_string(self)

\* `obj in d` for a dict d with str keys: some key has obj's hash and
\* compares equal to obj.  str.__eq__(key, obj) is NotImplemented for a
\* Screenshot, so Python asks the reflected Screenshot.__eq__(obj, key).
dict_contains(d, obj) ==
    \E key \in DOMAIN d :
        /\ key = Screenshot__hash__(obj)
        /\ Screenshot__eq__(obj, [type |-> "str", value |-> key])

dict_set(d, key, value) ==
    [k \in (DOMAIN d) \cup {key} |-> IF k = key THEN value ELSE d[k]]

----------------------------------------------------------------------------
(* sorted(..., key=lambda s: (s.xCoordWS, s.zCoordWS)): a stable sort *)

key_less(a, b) ==
    \/ a.xCoordWS < b.xCoordWS
    \/ a.xCoordWS = b.xCoordWS /\ a.zCoordWS < b.zCoordWS

RECURSIVE insert_stable(_, _)
insert_stable(s, t) ==
    IF s = <<>> THEN <<t>>
    ELSE IF key_less(t, Head(s)) THEN <<t>> \o s
    ELSE <<Head(s)>> \o insert_stable(Tail(s), t)

RECURSIVE sorted(_)
sorted(s) ==
    IF s = <<>> THEN <<>>
    ELSE insert_stable(sorted(SubSeq(s, 1, Len(s) - 1)), s[Len(s)])

----------------------------------------------------------------------------
(* Builtins *)

abs(n) == IF n < 0 THEN 0 - n ELSE n
max2(a, b) == IF a > b THEN a ELSE b

RECURSIVE py_min(_)
py_min(s) ==
    IF Len(s) = 1 THEN s[1]
    ELSE LET m == py_min(Tail(s)) IN IF m < s[1] THEN m ELSE s[1]

RECURSIVE py_max(_)
py_max(s) ==
    IF Len(s) = 1 THEN s[1]
    ELSE LET m == py_max(Tail(s)) IN IF m > s[1] THEN m ELSE s[1]

\* int(a / b): true division, then truncation toward zero
int_div(a, b) ==
    IF (a >= 0) = (b > 0) THEN abs(a) \div abs(b) ELSE 0 - (abs(a) \div abs(b))

xs(list) == [i \in 1..Len(list) |-> list[i].xCoordWS]
zs(list) == [i \in 1..Len(list) |-> list[i].zCoordWS]

----------------------------------------------------------------------------
(* ScreenshotProcessor: the tile registry *)

Returned(op, args, value) == [op |-> op, args |-> args, exc |-> "None", value |-> value]
Raised(op, args, exc) == [op |-> op, args |-> args, exc |-> exc, value |-> None]

\* ScreenshotProcessor.sort
sort(list) == sorted(list)

\* ScreenshotProcessor.__init__(screenshots): the registry built from a list,
\* or the exception it raises
init_mapped(list) ==
    [key \in {coordinate_string(list[i]) : i \in 1..Len(list)} |->
        LET last == CHOOSE i \in 1..Len(list) :
                /\ coordinate_string(list[i]) = key
                /\ \A j \in 1..Len(list) : coordinate_string(list[j]) = key => j <= i
        IN list[last]]

init_raises(list) == Len(list) # Cardinality(DOMAIN init_mapped(list))

\* ScreenshotProcessor.add_screenshot
add_screenshot(screenshot) ==
    /\ pc = "idle"
    /\ Len(screenshots) < MaxTiles
    /\ IF dict_contains(mapped_screenshots, screenshot)
       THEN UNCHANGED registry
       ELSE /\ screenshots' = sort(Append(screenshots, screenshot))
            /\ mapped_screenshots' =
                 dict_set(mapped_screenshots, coordinate_string(screenshot), screenshot)
    /\ ret' = Returned("add_screenshot", <<screenshot>>, None)
    /\ UNCHANGED <<config, compositor, disk, ui>>

\* ScreenshotProcessor.find_neighbour, as a function of the dict
find_neighbour_mutant(mapped, screenshot, x_offset, z_offset) ==
    LET x == screenshot.xCoordWS + x_offset
        z == screenshot.zCoordWS + x_offset
        neighbour_coordinate_lookup == make_coordinate_string(x, z)
    IN IF neighbour_coordinate_lookup \in DOMAIN mapped
       THEN mapped[neighbour_coordinate_lookup]
       ELSE None

find_neighbour(mapped, screenshot, x_offset, z_offset) ==
    LET x == screenshot.xCoordWS + x_offset
        z == screenshot.zCoordWS + z_offset
        neighbour_coordinate_lookup == make_coordinate_string(x, z)
    IN IF neighbour_coordinate_lookup \in DOMAIN mapped
       THEN mapped[neighbour_coordinate_lookup]
       ELSE None

call_find_neighbour(screenshot, x_offset, z_offset) ==
    /\ pc = "idle"
    /\ ret' = Returned("find_neighbour", <<screenshot, x_offset, z_offset>>,
                       find_neighbour(mapped_screenshots, screenshot, x_offset, z_offset))
    /\ UNCHANGED <<registry, config, compositor, disk, ui>>

\* ScreenshotProcessor.min_x / max_x / min_z / max_z: min() and max() of an
\* empty list raise ValueError
min_x(list) == py_min(xs(list))
max_x(list) == py_max(xs(list))
min_z_mutant(list) == py_min(xs(list))
min_z(list) == py_min(zs(list))
max_z(list) == py_max(zs(list))

bound_of(op, list) ==
    CASE op = "min_x" -> min_x(list)
      [] op = "max_x" -> max_x(list)
      [] op = "min_z" -> min_z(list)
      [] op = "max_z" -> max_z(list)

BoundOps == {"min_x", "max_x", "min_z", "max_z"}

call_bound(op) ==
    /\ pc = "idle"
    /\ ret' = IF screenshots = <<>> THEN Raised(op, <<>>, "ValueError")
              ELSE Returned(op, <<>>, bound_of(op, screenshots))
    /\ UNCHANGED <<registry, config, compositor, disk, ui>>

\* ScreenshotProcessor.tile_step_size, for a list of at least two tiles
tile_step_size(list) ==
    LET tile_0 == list[1]
        tile_1 == list[2]
        x_diff == abs(tile_0.xCoordWS - tile_1.xCoordWS)
        z_diff == abs(tile_0.zCoordWS - tile_1.zCoordWS)
    IN max2(x_diff, z_diff)

\* self.screenshots[1] raises IndexError on a shorter list
step_raises(list) == Len(list) < 2

call_tile_step_size ==
    /\ pc = "idle"
    /\ ret' = IF step_raises(screenshots) THEN Raised("tile_step_size", <<>>, "IndexError")
              ELSE Returned("tile_step_size", <<>>, tile_step_size(screenshots))
    /\ UNCHANGED <<registry, config, compositor, disk, ui>>

\* ScreenshotProcessor.count
count(list) == Len(list)

call_count ==
    /\ pc = "idle"
    /\ ret' = Returned("count", <<>>, count(screenshots))
    /\ UNCHANGED <<registry, config, compositor, disk, ui>>

----------------------------------------------------------------------------
(* The registry as built by from_directory: ScreenshotProcessor() followed *)
(* by add_screenshot calls, with the module's configuration as shipped.    *)

Init ==
    /\ screenshots = <<>>
    /\ mapped_screenshots = [key \in {} |-> None]
    /\ TILE_CROP_SIZE = 550
    /\ TILE_OVERLAP = -7
    /\ ret = Returned("__init__", <<>>, None)
    /\ pc = "idle"
    /\ tiles = <<>>
    /\ map_image = None
    /\ sorted_tiles = <<>>
    /\ next_tile = 0
    /\ loaded = {}
    /\ saved = None
    /\ tile_files = {}
    /\ output_tiles = [path \in {} |-> None]
    /\ gui = None
    /\ limits = <<-1, -1, -1, -1>>

Next ==
    \/ \E s \in AllScreenshots : add_screenshot(s)
    \/ \E s \in Probes, dx \in Offsets, dz \in Offsets : call_find_neighbour(s, dx, dz)
    \/ \E op \in BoundOps : call_bound(op)
    \/ call_tile_step_size
    \/ call_count

Spec == Init /\ [][Next]_vars

----------------------------------------------------------------------------
(* Screenshot.get_unit_coordinates and composite_screenshot_tiles *)

get_unit_coordinates(self, minx, minz, filename_coordinate_step) ==
    <<int_div(self.xCoordWS - minx, filename_coordinate_step),
      int_div(self.zCoordWS - minz, filename_coordinate_step)>>

\* lines 693-704: the unit range of an axis
x_unit_range(ts, step) == int_div(py_max(xs(ts)) - py_min(xs(ts)), step) + 1
z_unit_range(ts, step) == int_div(py_max(zs(ts)) - py_min(zs(ts)), step) + 1

\* lines 706-713: the output size of an axis
output_image_size_mutant(unit_range, crop, overlap) ==
    IF overlap # 0 THEN unit_range * crop + unit_range * overlap
    ELSE unit_range * crop

output_image_size(unit_range, crop, overlap) ==
    IF overlap # 0 THEN unit_range * crop + (unit_range - 1) * overlap
    ELSE unit_range * crop

\* line 717
sorted_tiles_mutant(ts) == ts

sorted_tiles_of(ts) == sorted(ts)

\* lines 720-734: where a tile is pasted
paste_tile_coord_unoverlapped(tile, ts, step, crop, overlap) ==
    LET unit == get_unit_coordinates(tile, py_min(xs(ts)), py_min(zs(ts)), step)
        x == unit[1]
        z == z_unit_range(ts, step) - unit[2] - 1
    IN <<x * crop, z * crop>>

paste_tile_coord_unscaled(tile, ts, step, crop, overlap) ==
    LET unit == get_unit_coordinates(tile, py_min(xs(ts)), py_min(zs(ts)), step)
        x == unit[1]
        z == z_unit_range(ts, step) - unit[2] - 1
    IN IF overlap # 0 THEN <<x * crop + overlap, z * crop + overlap>>
       ELSE <<x * crop, z * crop>>

paste_tile_coord_unflipped(tile, ts, step, crop, overlap) ==
    LET unit == get_unit_coordinates(tile, py_min(xs(ts)), py_min(zs(ts)), step)
        x == unit[1]
        z == unit[2]
    IN IF overlap # 0 THEN <<x * crop + overlap * x, z * crop + overlap * z>>
       ELSE <<x * crop, z * crop>>

paste_tile_coord(tile, ts, step, crop, overlap) ==
    LET unit == get_unit_coordinates(tile, py_min(xs(ts)), py_min(zs(ts)), step)
        x == unit[1]
        z == z_unit_range(ts, step) - unit[2] - 1
    IN IF overlap # 0 THEN <<x * crop + overlap * x, z * crop + overlap * z>>
       ELSE <<x * crop, z * crop>>

\* the exception lines 693-716 raise, "None" if they run through:
\* min() of an empty list, screenshots[1] of a short registry, a division by
\* a zero step, Image.new of a negative size
composite_raises(ts, list, crop, overlap) ==
    IF ts = <<>> THEN "ValueError"
    ELSE IF step_raises(list) THEN "IndexError"
    ELSE IF tile_step_size(list) = 0 THEN "ZeroDivisionError"
    ELSE IF \/ output_image_size(x_unit_range(ts, tile_step_size(list)), crop, overlap) < 0
            \/ output_image_size(z_unit_range(ts, tile_step_size(list)), crop, overlap) < 0
         THEN "ValueError"
    ELSE "None"

\* lines 692-717
composite_screenshot_tiles_mutant(ts) ==
    /\ pc = "idle"
    /\ tiles' = ts
    /\ LET exc == composite_raises(ts, screenshots, TILE_CROP_SIZE, TILE_OVERLAP)
           step == tile_step_size(screenshots)
       IN IF exc # "None"
          THEN /\ pc' = "done"
               /\ ret' = Raised("composite_screenshot_tiles", <<ts>>, exc)
               /\ saved' = [type |-> "Image", size |-> <<0, 0>>, pastes |-> <<>>]
               /\ UNCHANGED <<map_image, sorted_tiles, next_tile>>
          ELSE /\ pc' = "pasting"
               /\ map_image' =
                    [type |-> "Image",
                     size |-> <<output_image_size(x_unit_range(ts, step), TILE_CROP_SIZE, TILE_OVERLAP),
                                output_image_size(z_unit_range(ts, step), TILE_CROP_SIZE, TILE_OVERLAP)>>,
                     pastes |-> <<>>]
               /\ sorted_tiles' = sorted_tiles_of(ts)
               /\ next_tile' = 1
               /\ UNCHANGED <<ret, saved>>
    /\ UNCHANGED <<registry, config, loaded, disk, ui>>

composite_screenshot_tiles(ts) ==
    /\ pc = "idle"
    /\ tiles' = ts
    /\ LET exc == composite_raises(ts, screenshots, TILE_CROP_SIZE, TILE_OVERLAP)
           step == tile_step_size(screenshots)
       IN IF exc # "None"
          THEN /\ pc' = "done"
               /\ ret' = Raised("composite_screenshot_tiles", <<ts>>, exc)
               /\ UNCHANGED <<map_image, sorted_tiles, next_tile>>
          ELSE /\ pc' = "pasting"
               /\ map_image' =
                    [type |-> "Image",
                     size |-> <<output_image_size(x_unit_range(ts, step), TILE_CROP_SIZE, TILE_OVERLAP),
                                output_image_size(z_unit_range(ts, step), TILE_CROP_SIZE, TILE_OVERLAP)>>,
                     pastes |-> <<>>]
               /\ sorted_tiles' = sorted_tiles_of(ts)
               /\ next_tile' = 1
               /\ UNCHANGED ret
    /\ UNCHANGED <<registry, config, loaded, saved, disk, ui>>

\* lines 719-738: one round of the loop.  tile.tile_image opens the file,
\* which the file system lets succeed or not (FileNotFoundError); paste
\* records the image and its origin on the canvas, unload drops the payload.
composite_paste_mutant(on_disk) ==
    /\ pc = "pasting"
    /\ next_tile <= Len(sorted_tiles)
    /\ LET tile == sorted_tiles[next_tile]
           at == paste_tile_coord(tile, tiles, tile_step_size(screenshots),
                                  TILE_CROP_SIZE, TILE_OVERLAP)
       IN IF ~on_disk
          THEN /\ next_tile' = next_tile + 1
               /\ UNCHANGED <<pc, ret, map_image, loaded>>
          ELSE /\ map_image' =
                    [map_image EXCEPT !.pastes = Append(@, [tile |-> tile, at |-> at])]
               /\ loaded' = loaded \ {tile}
               /\ next_tile' = next_tile + 1
               /\ UNCHANGED <<pc, ret>>
    /\ UNCHANGED <<registry, config, tiles, sorted_tiles, saved, disk, ui>>

composite_paste(on_disk) ==
    /\ pc = "pasting"
    /\ next_tile <= Len(sorted_tiles)
    /\ LET tile == sorted_tiles[next_tile]
           at == paste_tile_coord(tile, tiles, tile_step_size(screenshots),
                                  TILE_CROP_SIZE, TILE_OVERLAP)
       IN IF ~on_disk
          THEN /\ pc' = "done"
               /\ ret' = Raised("composite_screenshot_tiles", <<tiles>>, "FileNotFoundError")
               /\ UNCHANGED <<map_image, next_tile, loaded>>
          ELSE /\ map_image' =
                    [map_image EXCEPT !.pastes = Append(@, [tile |-> tile, at |-> at])]
               /\ loaded' = loaded \ {tile}
               /\ next_tile' = next_tile + 1
               /\ UNCHANGED <<pc, ret>>
    /\ UNCHANGED <<registry, config, tiles, sorted_tiles, saved, disk, ui>>

\* lines 740-742
composite_save ==
    /\ pc = "pasting"
    /\ next_tile > Len(sorted_tiles)
    /\ saved' = map_image
    /\ pc' = "done"
    /\ ret' = Returned("composite_screenshot_tiles", <<tiles>>, None)
    /\ UNCHANGED <<registry, config, tiles, map_image, sorted_tiles, next_tile, loaded, disk, ui>>

\* lines 757-760: a tile below a start coordinate that was given (> 0) is
\* passed over
passes_start(screenshot, x_coods_start, z_coord_start) ==
    /\ ~(x_coods_start > 0 /\ screenshot.xCoordWS < x_coods_start)
    /\ ~(z_coord_start > 0 /\ screenshot.zCoordWS < z_coord_start)

\* lines 762-770: the running minimum and maximum, -1 standing for "none yet"
running_min(current, coord) == IF current = -1 \/ coord < current THEN coord ELSE current
running_max(current, coord) == IF current = -1 \/ coord > current THEN coord ELSE current

\* lines 751-779: the loop from position i of self.screenshots on, bounds
\* being <<min_x_coord, min_z_coord, max_x_coord, max_z_coord>>
RECURSIVE included_tiles_from(_, _, _, _)
included_tiles_from(list, lim, i, bounds) ==
    IF i > Len(list) THEN <<>>
    ELSE LET screenshot == list[i]
         IN IF ~passes_start(screenshot, lim[1], lim[2])
            THEN included_tiles_from(list, lim, i + 1, bounds)
            ELSE LET min_x_coord == running_min(bounds[1], screenshot.xCoordWS)
                     min_z_coord == running_min(bounds[2], screenshot.zCoordWS)
                     max_x_coord == running_max(bounds[3], screenshot.xCoordWS)
                     max_z_coord == running_max(bounds[4], screenshot.zCoordWS)
                     x_tile_count == int_div(max_x_coord - min_x_coord, tile_step_size(list))
                     z_tile_count == int_div(max_z_coord - min_z_coord, tile_step_size(list))
                     rest == included_tiles_from(list, lim, i + 1,
                                 <<min_x_coord, min_z_coord, max_x_coord, max_z_coord>>)
                 IN IF \/ (lim[3] = 0 \/ x_tile_count <= lim[3])
                       \/ (lim[4] = 0 \/ z_tile_count <= lim[4])
                    THEN <<screenshot>> \o rest
                    ELSE rest

included_tiles(list, lim) == included_tiles_from(list, lim, 1, <<-1, -1, -1, -1>>)

\* lines 772-773: the first tile that passes the starts reads tile_step_size
\* and divides by it
make_large_map_raises(list, lim) ==
    IF \A i \in 1..Len(list) : ~passes_start(list[i], lim[1], lim[2]) THEN "None"
    ELSE IF step_raises(list) THEN "IndexError"
    ELSE IF tile_step_size(list) = 0 THEN "ZeroDivisionError"
    ELSE "None"

\* lines 745-782; limits is <<x_coods_start, z_coord_start, max_x_tile_count,
\* max_z_tile_count>>, all -1 by default
make_large_map ==
    IF limits[1] < 0 /\ limits[2] < 0 /\ limits[3] < 0 /\ limits[4] < 0
    THEN composite_screenshot_tiles(screenshots)
    ELSE IF make_large_map_raises(screenshots, limits) # "None"
    THEN /\ pc = "idle"
         /\ pc' = "done"
         /\ ret' = Raised("make_large_map", limits, make_large_map_raises(screenshots, limits))
         /\ UNCHANGED <<registry, config, tiles, map_image, sorted_tiles, next_tile,
                        loaded, saved, disk, ui>>
    ELSE composite_screenshot_tiles(included_tiles(screenshots, limits))

\* the pixels an image of the given size covers when pasted at `at`
covers(at, size, px, py) ==
    /\ at[1] <= px /\ px < at[1] + size[1]
    /\ at[2] <= py /\ py < at[2] + size[2]

\* Image.paste overwrites: the tile a canvas pixel shows is the last one
\* pasted over it (None where nothing was pasted)
RECURSIVE shown(_, _, _)
shown(pastes, px, py) ==
    IF pastes = <<>> THEN None
    ELSE LET last == pastes[Len(pastes)]
         IN IF covers(last.at, tile_image_size(last.tile), px, py) THEN last.tile
            ELSE shown(SubSeq(pastes, 1, Len(pastes) - 1), px, py)

----------------------------------------------------------------------------
(* The compositor called on any list of registered tiles, under any of the *)
(* configurations CropSizes x Overlaps.                                    *)

CropSizes == {2, 3}
Overlaps == {-1, 0, 1}

CompositeTiles == {Screenshot(x, z, "tile") : x \in XCoords, z \in ZCoords}

\* the lists of distinct entries of a list, in any order
RECURSIVE index_lists(_, _)
index_lists(free, n) ==
    IF n = 0 THEN {<<>>}
    ELSE {<<>>} \cup UNION {{<<i>> \o rest : rest \in index_lists(free \ {i}, n - 1)} : i \in free}

sub_lists(list) ==
    {[i \in DOMAIN f |-> list[f[i]]] : f \in index_lists(1..Len(list), Len(list))}

InitComposite ==
    /\ screenshots = <<>>
    /\ mapped_screenshots = [key \in {} |-> None]
    /\ TILE_CROP_SIZE \in CropSizes
    /\ TILE_OVERLAP \in Overlaps
    /\ ret = Returned("__init__", <<>>, None)
    /\ pc = "idle"
    /\ tiles = <<>>
    /\ map_image = None
    /\ sorted_tiles = <<>>
    /\ next_tile = 0
    /\ loaded = {}
    /\ saved = None
    /\ tile_files = {}
    /\ output_tiles = [path \in {} |-> None]
    /\ gui = None
    /\ limits = <<-1, -1, -1, -1>>

NextComposite ==
    \/ \E s \in CompositeTiles : add_screenshot(s)
    \/ \E ts \in sub_lists(screenshots) : composite_screenshot_tiles(ts)
    \/ \E on_disk \in BOOLEAN : composite_paste(on_disk)
    \/ composite_save

SpecComposite == InitComposite /\ [][NextComposite]_vars

----------------------------------------------------------------------------
(* The script's -m run on a registry built by ScreenshotProcessor(list)    *)
(* from a duplicate-free list of tiles lying on a lattice: make_large_map  *)
(* composites every tile of the registry.                                  *)

GridSpacings == {1, 100}
GridOrigins == {-1, 0}
GridCropSizes == {TileFileSize, 50, 550}
GridOverlaps == {-7, -1, 0, 1}

lattice(x0, z0, s) ==
    {<<x0 + i * s, z0 + j * s>> : i \in 0..(MaxGrid - 1), j \in 0..(MaxGrid - 1)}

RECURSIVE list_of(_)
list_of(points) ==
    IF points = {} THEN <<>>
    ELSE LET c == CHOOSE c \in points : TRUE
         IN <<Screenshot(c[1], c[2], "tile")>> \o list_of(points \ {c})

InitGrid ==
    /\ \E x0 \in GridOrigins, s \in GridSpacings :
         \E points \in SUBSET lattice(x0, 0, s) :
            /\ ~init_raises(list_of(points))
            /\ screenshots = sort(list_of(points))
            /\ mapped_screenshots = init_mapped(list_of(points))
    /\ TILE_CROP_SIZE \in GridCropSizes
    /\ TILE_OVERLAP \in GridOverlaps
    /\ ret = Returned("__init__", <<>>, None)
    /\ pc = "idle"
    /\ tiles = <<>>
    /\ map_image = None
    /\ sorted_tiles = <<>>
    /\ next_tile = 0
    /\ loaded = {}
    /\ saved = None
    /\ tile_files = {}
    /\ output_tiles = [path \in {} |-> None]
    /\ gui = None
    /\ limits = <<-1, -1, -1, -1>>

NextGrid ==
    \/ make_large_map
    \/ \E on_disk \in BOOLEAN : composite_paste(on_disk)
    \/ composite_save

SpecGrid == InitGrid /\ [][NextGrid]_vars

----------------------------------------------------------------------------
(* make_large_map called with start coordinates and tile-count limits on a *)
(* duplicate-free registry of tiles lying on a lattice.                    *)

LargeMapLimits ==
    {<<-1, -1, -1, -1>>, <<1, -1, -1, -1>>, <<-1, 1, -1, -1>>, <<1, 1, -1, -1>>,
     <<-1, -1, 0, 0>>, <<-1, -1, 1, -1>>, <<1, -1, 0, -1>>}
LargeMapCropSizes == {TileFileSize, 50}
LargeMapOverlaps == {-1, 0}

InitLargeMap ==
    /\ \E points \in SUBSET lattice(0, 0, 1) :
          /\ ~init_raises(list_of(points))
          /\ screenshots = sort(list_of(points))
          /\ mapped_screenshots = init_mapped(list_of(points))
    /\ TILE_CROP_SIZE \in LargeMapCropSizes
    /\ TILE_OVERLAP \in LargeMapOverlaps
    /\ ret = Returned("__init__", <<>>, None)
    /\ pc = "idle"
    /\ tiles = <<>>
    /\ map_image = None
    /\ sorted_tiles = <<>>
    /\ next_tile = 0
    /\ loaded = {}
    /\ saved = None
    /\ tile_files = {}
    /\ output_tiles = [path \in {} |-> None]
    /\ gui = None
    /\ limits \in LargeMapLimits

SpecLargeMap == InitLargeMap /\ [][NextGrid]_vars

----------------------------------------------------------------------------
(* The -m run on a lattice under configurations that include a negative    *)
(* crop size.  With these values no canvas side is 0: Image.new raises     *)
(* ValueError on a negative side and builds the canvas otherwise.          *)

ConfigCropSizes == {-1, 2}
ConfigOverlaps == {0, 3}

InitConfig ==
    /\ \E x0 \in GridOrigins, s \in GridSpacings :
         \E points \in SUBSET lattice(x0, 0, s) :
            /\ ~init_raises(list_of(points))
            /\ screenshots = sort(list_of(points))
            /\ mapped_screenshots = init_mapped(list_of(points))
    /\ TILE_CROP_SIZE \in ConfigCropSizes
    /\ TILE_OVERLAP \in ConfigOverlaps
    /\ ret = Returned("__init__", <<>>, None)
    /\ pc = "idle"
    /\ tiles = <<>>
    /\ map_image = None
    /\ sorted_tiles = <<>>
    /\ next_tile = 0
    /\ loaded = {}
    /\ saved = None
    /\ tile_files = {}
    /\ output_tiles = [path \in {} |-> None]
    /\ gui = None
    /\ limits = <<-1, -1, -1, -1>>

SpecConfig == InitConfig /\ [][NextGrid]_vars

----------------------------------------------------------------------------
(* Screenshot.get_unit_coordinates called on a tile with any minimum and   *)
(* any step, the negative steps and the zero step included.                *)

UnitCoords == -3..3
UnitMins == {-1, 0, 2}
UnitSteps == -2..3

\* line 111: the division raises ZeroDivisionError on a zero step
call_get_unit_coordinates(self, minx, minz, filename_coordinate_step) ==
    /\ pc = "idle"
    /\ ret' = IF filename_coordinate_step = 0
              THEN Raised("get_unit_coordinates",
                          <<self, minx, minz, filename_coordinate_step>>,
                          "ZeroDivisionError")
              ELSE Returned("get_unit_coordinates",
                            <<self, minx, minz, filename_coordinate_step>>,
                            get_unit_coordinates(self, minx, minz, filename_coordinate_step))
    /\ UNCHANGED <<registry, config, compositor, disk, ui>>

InitUnit ==
    /\ \E x \in UnitCoords, z \in UnitCoords :
          /\ screenshots = <<Screenshot(x, z, "tile")>>
          /\ mapped_screenshots = init_mapped(<<Screenshot(x, z, "tile")>>)
    /\ TILE_CROP_SIZE = 550
    /\ TILE_OVERLAP = -7
    /\ ret = Returned("__init__", <<>>, None)
    /\ pc = "idle"
    /\ tiles = <<>>
    /\ map_image = None
    /\ sorted_tiles = <<>>
    /\ next_tile = 0
    /\ loaded = {}
    /\ saved = None
    /\ tile_files = {}
    /\ output_tiles = [path \in {} |-> None]
    /\ gui = None
    /\ limits = <<-1, -1, -1, -1>>

NextUnit ==
    \E i \in 1..Len(screenshots), minx \in UnitMins, minz \in UnitMins, step \in UnitSteps :
        call_get_unit_coordinates(screenshots[i], minx, minz, step)

SpecUnit == InitUnit /\ [][NextUnit]_vars

----------------------------------------------------------------------------
(* find_best_matching_row: the normalized cross-correlation of one row of  *)
(* the source screenshot with every row of the target screenshot.          *)
(*                                                                         *)
(* An array is [ndim, data]: data is the sequence of its rows, a row the   *)
(* sequence of its pixels, a pixel a number (ndim = 2) or the sequence of  *)
(* its channels (ndim = 3).  Both screenshots have the same mode and the   *)
(* same width, so line 944 does not resize.  Scores are fractions n/d with *)
(* d > 0; rows are RowWidth = 2 pixels wide, for which the square root of  *)
(* lines 970 and 987 is a whole number and every score is a fraction.      *)

RowWidth == 2
Channels == 2
PixelValues == {0, 1}
ImageHeights == 1..2

GreyRows == [1..RowWidth -> PixelValues]
ColourRows == [1..RowWidth -> [1..Channels -> PixelValues]]

Arrays(ndim) ==
    {[ndim |-> ndim, data |-> d] :
        d \in UNION {[1..h -> IF ndim = 3 THEN ColourRows ELSE GreyRows] : h \in ImageHeights}}

frac(n, d) == [n |-> n, d |-> d]
frac_less(a, b) == a.n * b.d < b.n * a.d
frac_equal(a, b) == a.n * b.d = b.n * a.d
frac_add(a, b) == frac(a.n * b.d + b.n * a.d, a.d * b.d)

RECURSIVE np_sum(_)
np_sum(row) == IF row = <<>> THEN 0 ELSE row[1] + np_sum(Tail(row))

\* Len(row) * (row - np.mean(row)): lines 966-967 and 983-984, times the width
centred(row) == [i \in DOMAIN row |-> Len(row) * row[i] - np_sum(row)]

dot(a, b) == np_sum([i \in DOMAIN a |-> a[i] * b[i]])

sqrt(v) == CHOOSE r \in 0..v : r * r = v

\* lines 969-976 and 986-993: 0 on a zero denominator
ncc(src, tgt) ==
    LET src_norm == centred(src)
        tgt_norm == centred(tgt)
        numerator == dot(src_norm, tgt_norm)
        denominator == sqrt(dot(src_norm, src_norm) * dot(tgt_norm, tgt_norm))
    IN IF denominator = 0 THEN frac(0, 1) ELSE frac(numerator, denominator)

RECURSIVE frac_sum(_)
frac_sum(fs) == IF fs = <<>> THEN frac(0, 1) ELSE frac_add(fs[1], frac_sum(Tail(fs)))

np_mean(fs) == frac(frac_sum(fs).n, frac_sum(fs).d * Len(fs))

channel(row, c) == [i \in DOMAIN row |-> row[i][c]]

\* lines 959-993: the score of one target row
row_score(ndim, source_row, target_row) ==
    IF ndim = 3
    THEN np_mean([c \in 1..Channels |-> ncc(channel(source_row, c), channel(target_row, c))])
    ELSE ncc(source_row, target_row)

\* np.argmax: the first position of the greatest score
argmax_mutant(scores) ==
    CHOOSE i \in DOMAIN scores :
        /\ \A j \in DOMAIN scores : ~frac_less(scores[i], scores[j])
        /\ \A j \in DOMAIN scores : j > i => frac_less(scores[j], scores[i])

argmax(scores) ==
    CHOOSE i \in DOMAIN scores :
        /\ \A j \in DOMAIN scores : ~frac_less(scores[i], scores[j])
        /\ \A j \in DOMAIN scores : j < i => frac_less(scores[j], scores[i])

\* lines 948-1001; rows are numbered from 0
find_best_matching_row(source_array, source_row_index, target_array) ==
    LET source_row == source_array.data[source_row_index + 1]
        scores == [i \in DOMAIN target_array.data |->
                     row_score(source_array.ndim, source_row, target_array.data[i])]
        best_match_index == argmax(scores)
    IN <<best_match_index - 1, scores[best_match_index], scores>>

\* lines 908-1001: both screenshot_image properties open and cache the
\* screenshots; a row index past the last row raises IndexError on line 948
call_find_best_matching_row(source_screenshot, source_array, source_row_index, target_screenshot, target_array) ==
    /\ pc = "idle"
    /\ loaded' = loaded \cup {source_screenshot, target_screenshot}
    /\ ret' = IF source_row_index >= Len(source_array.data)
              THEN Raised("find_best_matching_row",
                          <<source_array, source_row_index, target_array>>, "IndexError")
              ELSE Returned("find_best_matching_row",
                            <<source_array, source_row_index, target_array>>,
                            find_best_matching_row(source_array, source_row_index, target_array))
    /\ UNCHANGED <<registry, config, pc, tiles, map_image, sorted_tiles, next_tile,
                   saved, disk, ui>>

InitMatch ==
    /\ screenshots = sort(<<Screenshot(0, 0, "raw"), Screenshot(0, 1, "raw")>>)
    /\ mapped_screenshots = init_mapped(<<Screenshot(0, 0, "raw"), Screenshot(0, 1, "raw")>>)
    /\ TILE_CROP_SIZE = 550
    /\ TILE_OVERLAP = -7
    /\ ret = Returned("__init__", <<>>, None)
    /\ pc = "idle"
    /\ tiles = <<>>
    /\ map_image = None
    /\ sorted_tiles = <<>>
    /\ next_tile = 0
    /\ loaded = {}
    /\ saved = None
    /\ tile_files = {}
    /\ output_tiles = [path \in {} |-> None]
    /\ gui = None
    /\ limits = <<-1, -1, -1, -1>>

\* one call, on any two arrays of one mode
NextMatch ==
    /\ ret.op = "__init__"
    /\ \E ndim \in {2, 3} :
        \E source_array \in Arrays(ndim), target_array \in Arrays(ndim),
           source_row_index \in 0..2 :
            call_find_best_matching_row(screenshots[1], source_array, source_row_index,
                                        screenshots[2], target_array)

SpecMatch == InitMatch /\ [][NextMatch]_vars

----------------------------------------------------------------------------
(* make_tiles, make_initial_tiles and the script's run (main): the registry *)
(* is built from the files of the input directory, make_tiles crops the    *)
(* screenshots, and then either make_large_map (-m) or make_initial_tiles  *)
(* runs.  SKIP_EXISTING_TILES is True and DELETE_ORIGINALS is False.       *)

\* Screenshot.tile_exists: a tile file is on disk when the directory listing
\* held it, that is when the registry was given it
tile_exists(self, list) ==
    \/ self.src = "tile"
    \/ \E i \in 1..Len(list) :
          list[i] = Screenshot(self.xCoordWS, self.zCoordWS, "tile")

\* the screenshots make_tiles calls create_tile on
tiles_to_create(list) ==
    {list[i] : i \in {j \in 1..Len(list) : ~tile_exists(list[j], list)}}

\* lines 681-690 with create_tile (96-105): self.screenshot_image opens and
\* caches the screenshot, crop decodes it, save writes the tile file; nothing
\* unloads the screenshot
make_tiles ==
    /\ pc = "idle"
    /\ ret.op # "make_tiles"
    /\ loaded' = loaded \cup tiles_to_create(screenshots)
    /\ tile_files' = tile_files \cup tiles_to_create(screenshots)
    /\ ret' = Returned("make_tiles", <<>>, None)
    /\ UNCHANGED <<registry, config, pc, tiles, map_image, sorted_tiles,
                   next_tile, saved, output_tiles, ui>>

\* lines 787-792: the path of a tile in the output directory
output_tile_path(self, step, initial_z_dirname) ==
    ToString(initial_z_dirname) \o "/" \o ToString(int_div(self.xCoordWS, step))
        \o "/" \o ToString(int_div(self.zCoordWS, step)) \o "/tile.jpg"

\* lines 786-811: the loop from position i on.  A tile whose path is taken is
\* passed over; Image.open of tile `missing` finds no file.
RECURSIVE initial_tiles_from(_, _, _, _, _)
initial_tiles_from(list, i, step, out, missing) ==
    IF i > Len(list) THEN [out |-> out, exc |-> "None"]
    ELSE LET path == output_tile_path(list[i], step, 0)
         IN IF path \in DOMAIN out
            THEN initial_tiles_from(list, i + 1, step, out, missing)
            ELSE IF i = missing THEN [out |-> out, exc |-> "FileNotFoundError"]
            ELSE initial_tiles_from(list, i + 1, step,
                                    dict_set(out, path, list[i]), missing)

\* the exception self.tile_step_size raises in the first round, if any
initial_tiles_raises(list) ==
    IF list = <<>> THEN "None"
    ELSE IF step_raises(list) THEN "IndexError"
    ELSE IF tile_step_size(list) = 0 THEN "ZeroDivisionError"
    ELSE "None"

make_initial_tiles(missing) ==
    /\ pc = "idle"
    /\ pc' = "done"
    /\ IF initial_tiles_raises(screenshots) # "None"
       THEN /\ ret' = Raised("make_initial_tiles", <<>>, initial_tiles_raises(screenshots))
            /\ UNCHANGED output_tiles
       ELSE LET run == IF screenshots = <<>> THEN [out |-> output_tiles, exc |-> "None"]
                       ELSE initial_tiles_from(screenshots, 1, tile_step_size(screenshots),
                                               output_tiles, missing)
            IN /\ output_tiles' = run.out
               /\ ret' = IF run.exc = "None"
                         THEN Returned("make_initial_tiles", <<>>, None)
                         ELSE Raised("make_initial_tiles", <<>>, run.exc)
    /\ UNCHANGED <<registry, config, tiles, map_image, sorted_tiles, next_tile,
                   loaded, saved, tile_files, ui>>

\* the files of the input directory
MainFiles ==
    {Screenshot(x, z, src) : x \in {-1, 99}, z \in {0, 100}, src \in {"raw", "tile"}}

NextMain ==
    \/ ret.op # "make_tiles" /\ \E s \in MainFiles : add_screenshot(s)
    \/ make_tiles
    \/ ret.op = "make_tiles" /\ make_large_map
    \/ ret.op = "make_tiles" /\ \E missing \in 0..Len(screenshots) : make_initial_tiles(missing)
    \/ \E on_disk \in BOOLEAN : composite_paste(on_disk)
    \/ composite_save

SpecMain == Init /\ [][NextMain]_vars

----------------------------------------------------------------------------
(* TileAlignmentGUI.  The object is the record gui; IntVar and StringVar    *)
(* are the fields overlap_var, crop_size_var and direction_var, the values *)
(* offered by direction_dropdown the field direction_values, and the image *)
(* update_preview last built the field preview.  A callback that raises    *)
(* leaves the GUI running with the assignments it made before the          *)
(* exception (Tk reports the exception and returns to the main loop).       *)
(* The registry holds tiles found as tile files, without duplicates.       *)

\* lines 152-168, from position i of self.tiles on
RECURSIVE find_valid_tile_sets_from(_, _, _)
find_valid_tile_sets_from(list, mapped, i) ==
    IF i > Len(list) THEN <<>>
    ELSE LET tile == list[i]
             h_neighbor == find_neighbour(mapped, tile, tile_step_size(list), 0)
             v_neighbor == find_neighbour(mapped, tile, 0, tile_step_size(list))
             rest == find_valid_tile_sets_from(list, mapped, i + 1)
         IN IF h_neighbor # None \/ v_neighbor # None
            THEN <<[tile |-> tile, h_neighbor |-> h_neighbor, v_neighbor |-> v_neighbor]>> \o rest
            ELSE rest

find_valid_tile_sets(list, mapped) == find_valid_tile_sets_from(list, mapped, 1)

\* the first index i with self.tiles[i] == tile, counted from 0
index_of(list, tile) ==
    (CHOOSE i \in 1..Len(list) :
        /\ Screenshot__eq__(list[i], tile)
        /\ \A j \in 1..(i - 1) : ~Screenshot__eq__(list[j], tile)) - 1

\* lines 170-181
load_current_tile_set(g, list) ==
    LET current_set == g.valid_tile_sets[g.current_set_index + 1]
    IN [g EXCEPT !.current_tile = current_set.tile,
                 !.horizontal_neighbor = current_set.h_neighbor,
                 !.vertical_neighbor = current_set.v_neighbor,
                 !.selected_tile_index =
                     IF \E i \in 1..Len(list) : Screenshot__eq__(list[i], current_set.tile)
                     THEN index_of(list, current_set.tile) ELSE @]

\* lines 207-208 and 280-281
direction_options(g) ==
    IF g.horizontal_neighbor # None /\ g.vertical_neighbor # None
    THEN {"Horizontal", "Vertical"}
    ELSE IF g.horizontal_neighbor # None THEN {"Horizontal"} ELSE {"Vertical"}

\* lines 201-217
update_ui_for_new_set(g) ==
    [g EXCEPT !.direction_values = direction_options(g),
              !.direction_var =
                  IF @ = "Horizontal" /\ g.horizontal_neighbor = None THEN "Vertical"
                  ELSE IF @ = "Vertical" /\ g.vertical_neighbor = None THEN "Horizontal"
                  ELSE @]

\* lines 327-331
get_neighbor_for_current_direction(g) ==
    IF g.direction_var = "Horizontal" THEN g.horizontal_neighbor ELSE g.vertical_neighbor

\* lines 333-344: neighbor.xCoordWS of None raises AttributeError
get_info_text_raises(g) ==
    IF get_neighbor_for_current_direction(g) = None THEN "AttributeError" ELSE "None"

\* lines 463-498: the image update_preview builds, before it is scaled to
\* the canvas.  The tile files exist, so get_image_for_tile returns the tile
\* images; Image.new of a negative side and the division by a zero side on
\* line 506 raise, and the except clause shows the error text instead.
update_preview(g) ==
    LET overlap == g.overlap_var
        img_size == tile_image_size(g.current_tile)[1]
        neighbor == get_neighbor_for_current_direction(g)
        horizontal == g.direction_var = "Horizontal"
        composite_width == IF horizontal THEN img_size * 2 - overlap ELSE img_size
        composite_height == IF horizontal THEN img_size ELSE img_size * 2 - overlap
    IN IF neighbor = None THEN [type |-> "text", text |-> "No neighbor available in this direction"]
       ELSE IF composite_width <= 0 \/ composite_height <= 0
       THEN [type |-> "text", text |-> "Error creating preview"]
       ELSE [type |-> "Image",
             size |-> <<composite_width, composite_height>>,
             pastes |-> <<[tile |-> g.current_tile, at |-> <<0, 0>>],
                          [tile |-> neighbor,
                           at |-> IF horizontal THEN <<img_size - overlap, 0>>
                                  ELSE <<0, img_size - overlap>>]>>]

\* the tiles whose tile_image update_preview opens and caches
preview_loads(g) ==
    {g.current_tile} \cup
    (IF get_neighbor_for_current_direction(g) = None THEN {}
     ELSE {get_neighbor_for_current_direction(g)})

\* the end of most callbacks: self.update_preview() followed by
\* self.info_var.set(self.get_info_text()), on the GUI state g
refresh(op, args, g) ==
    /\ gui' = [g EXCEPT !.preview = update_preview(g)]
    /\ loaded' = loaded \cup preview_loads(g)
    /\ ret' = IF get_info_text_raises(g) # "None"
              THEN Raised(op, args, get_info_text_raises(g))
              ELSE Returned(op, args, None)

\* lines 117-150, called by launch_alignment_gui (1066-1075), which prints
\* the RuntimeError and lets the script exit
TileAlignmentGUI__init__ ==
    /\ pc = "idle"
    /\ gui = None
    /\ IF Len(screenshots) < 2
          \/ find_valid_tile_sets(screenshots, mapped_screenshots) = <<>>
       THEN /\ ret' = Raised("TileAlignmentGUI", <<>>, "RuntimeError")
            /\ pc' = "done"
            /\ UNCHANGED <<gui, loaded>>
       ELSE LET g0 == load_current_tile_set(
                        [valid_tile_sets |-> find_valid_tile_sets(screenshots, mapped_screenshots),
                         current_set_index |-> 0,
                         selected_tile_index |-> 0,
                         current_tile |-> None,
                         horizontal_neighbor |-> None,
                         vertical_neighbor |-> None,
                         overlap_var |-> abs(TILE_OVERLAP),
                         crop_size_var |-> TILE_CROP_SIZE,
                         direction_var |-> "Horizontal",
                         original_overlap |-> TILE_OVERLAP,
                         original_crop_size |-> TILE_CROP_SIZE,
                         direction_values |-> {},
                         preview |-> None],
                        screenshots)
                g1 == [g0 EXCEPT !.direction_var =
                                     IF g0.horizontal_neighbor # None
                                     THEN "Horizontal" ELSE "Vertical",
                                 !.direction_values = direction_options(g0)]
            IN /\ refresh("TileAlignmentGUI", <<>>, g1)
               /\ UNCHANGED pc
    /\ UNCHANGED <<registry, config, tiles, map_image, sorted_tiles, next_tile,
                   saved, disk, limits>>

\* lines 183-199: step is 1 for next_set and -1 for prev_set
move_set(op, step) ==
    /\ pc = "idle"
    /\ gui # None
    /\ IF Len(gui.valid_tile_sets) > 1
       THEN refresh(op, <<>>,
                update_ui_for_new_set(
                    load_current_tile_set(
                        [gui EXCEPT !.current_set_index =
                                        (@ + step) % Len(gui.valid_tile_sets)],
                        screenshots)))
       ELSE /\ ret' = Returned(op, <<>>, None)
            /\ UNCHANGED <<gui, loaded>>
    /\ UNCHANGED <<registry, config, pc, tiles, map_image, sorted_tiles, next_tile,
                   saved, disk, limits>>

next_set == move_set("next_set", 1)

prev_set == move_set("prev_set", -1)

\* lines 346-352: the slider has set overlap_var to a value of its range
on_overlap_change(value) ==
    /\ pc = "idle"
    /\ gui # None
    /\ refresh("on_overlap_change", <<value>>, [gui EXCEPT !.overlap_var = value])
    /\ UNCHANGED <<registry, config, pc, tiles, map_image, sorted_tiles, next_tile,
                   saved, disk, limits>>

\* int(text) of what an entry field holds: a number, or ValueError
py_int(text) == IF text.numeric THEN text.value ELSE "ValueError"

clamp(value, lo, hi) == IF value < lo THEN lo ELSE IF value > hi THEN hi ELSE value

\* lines 354-370
on_overlap_entry_change(text) ==
    /\ pc = "idle"
    /\ gui # None
    /\ IF ~text.numeric
       THEN /\ ret' = Returned("on_overlap_entry_change", <<text>>, None)
            /\ UNCHANGED <<gui, loaded>>
       ELSE refresh("on_overlap_entry_change", <<text>>,
                    [gui EXCEPT !.overlap_var = clamp(py_int(text), 0, 200)])
    /\ UNCHANGED <<registry, config, pc, tiles, map_image, sorted_tiles, next_tile,
                   saved, disk, limits>>

\* lines 372-378
on_crop_size_change_mutant(value) ==
    /\ pc = "idle"
    /\ gui # None
    /\ refresh("on_crop_size_change", <<value>>, [gui EXCEPT !.crop_size_var = value])
    /\ TILE_CROP_SIZE' = value
    /\ UNCHANGED <<registry, TILE_OVERLAP, pc, tiles, map_image, sorted_tiles, next_tile,
                   saved, disk, limits>>

on_crop_size_change(value) ==
    /\ pc = "idle"
    /\ gui # None
    /\ refresh("on_crop_size_change", <<value>>, [gui EXCEPT !.crop_size_var = value])
    /\ UNCHANGED <<registry, config, pc, tiles, map_image, sorted_tiles, next_tile,
                   saved, disk, limits>>

\* lines 380-396
on_crop_size_entry_change(text) ==
    /\ pc = "idle"
    /\ gui # None
    /\ IF ~text.numeric
       THEN /\ ret' = Returned("on_crop_size_entry_change", <<text>>, None)
            /\ UNCHANGED <<gui, loaded>>
       ELSE refresh("on_crop_size_entry_change", <<text>>,
                    [gui EXCEPT !.crop_size_var = clamp(py_int(text), 300, 1500)])
    /\ UNCHANGED <<registry, config, pc, tiles, map_image, sorted_tiles, next_tile,
                   saved, disk, limits>>

\* lines 398-400: the combobox has set direction_var to one of its values
on_direction_change(direction) ==
    /\ pc = "idle"
    /\ gui # None
    /\ direction \in gui.direction_values
    /\ refresh("on_direction_change", <<direction>>, [gui EXCEPT !.direction_var = direction])
    /\ UNCHANGED <<registry, config, pc, tiles, map_image, sorted_tiles, next_tile,
                   saved, disk, limits>>

\* lines 413-417: the index of the first valid set of the tile, counted
\* from 0; the index stays as it is when the tile has no valid set
matching_set_index(g, tile) ==
    IF \E i \in 1..Len(g.valid_tile_sets) : Screenshot__eq__(g.valid_tile_sets[i].tile, tile)
    THEN (CHOOSE i \in 1..Len(g.valid_tile_sets) :
            /\ Screenshot__eq__(g.valid_tile_sets[i].tile, tile)
            /\ \A j \in 1..(i - 1) : ~Screenshot__eq__(g.valid_tile_sets[j].tile, tile)) - 1
    ELSE g.current_set_index

\* lines 402-436: idx is the entry of the tile selector the user picked
on_tile_change(idx) ==
    /\ pc = "idle"
    /\ gui # None
    /\ idx \in 0..(Len(screenshots) - 1)
    /\ LET current_tile == screenshots[idx + 1]
           step == tile_step_size(screenshots)
           g1 == [gui EXCEPT !.selected_tile_index = idx,
                             !.current_tile = current_tile,
                             !.horizontal_neighbor =
                                 find_neighbour(mapped_screenshots, current_tile, step, 0),
                             !.vertical_neighbor =
                                 find_neighbour(mapped_screenshots, current_tile, 0, step)]
           g2 == [g1 EXCEPT !.current_set_index = matching_set_index(g1, current_tile)]
           no_neighbors == g2.horizontal_neighbor = None /\ g2.vertical_neighbor = None
           g3 == [g2 EXCEPT !.direction_var =
                                IF @ = "Horizontal" /\ g2.horizontal_neighbor = None
                                THEN "Vertical"
                                ELSE IF @ = "Vertical" /\ g2.vertical_neighbor = None
                                THEN "Horizontal"
                                ELSE @]
       IN IF no_neighbors
          THEN /\ gui' = g2
               /\ ret' = Returned("on_tile_change", <<idx>>, None)
               /\ UNCHANGED loaded
          ELSE refresh("on_tile_change", <<idx>>, g3)
    /\ UNCHANGED <<registry, config, pc, tiles, map_image, sorted_tiles, next_tile,
                   saved, disk, limits>>

\* lines 539-551: the globals are assigned before get_info_text is called
apply_settings ==
    /\ pc = "idle"
    /\ gui # None
    /\ TILE_OVERLAP' = 0 - gui.overlap_var
    /\ TILE_CROP_SIZE' = gui.crop_size_var
    /\ ret' = IF get_info_text_raises(gui) # "None"
              THEN Raised("apply_settings", <<>>, get_info_text_raises(gui))
              ELSE Returned("apply_settings", <<>>, None)
    /\ UNCHANGED <<registry, pc, tiles, map_image, sorted_tiles, next_tile, loaded,
                   saved, disk, ui>>

\* lines 553-566
reset_to_original ==
    /\ pc = "idle"
    /\ gui # None
    /\ refresh("reset_to_original", <<>>,
               [gui EXCEPT !.overlap_var = abs(gui.original_overlap),
                           !.crop_size_var = gui.original_crop_size])
    /\ UNCHANGED <<registry, config, pc, tiles, map_image, sorted_tiles, next_tile,
                   saved, disk, limits>>

\* lines 568-586: apply_settings, then create_tile on the current tile.  The
\* tile was found as a tile file and has no screenshot_filepath, so
\* self.screenshot_image raises TypeError (os.path.exists(None)); the except
\* clause of generate_tiles swallows it, as it swallows the AttributeError of
\* apply_settings, and nothing but the globals has changed.
generate_tiles ==
    /\ pc = "idle"
    /\ gui # None
    /\ gui.current_tile.src = "tile"
    /\ TILE_OVERLAP' = 0 - gui.overlap_var
    /\ TILE_CROP_SIZE' = gui.crop_size_var
    /\ ret' = Returned("generate_tiles", <<>>, None)
    /\ UNCHANGED <<registry, pc, tiles, map_image, sorted_tiles, next_tile, loaded,
                   saved, disk, ui>>

\* the registries the GUI is opened on, the configurations it finds and
\* what the user enters
GuiPoints == {<<x, z>> : x \in {0, 1}, z \in {0, 1}}
GuiCropSizes == {300, 550}
GuiOverlaps == {-7, 1}
SliderOverlaps == {1}
SliderCropSizes == {300}
OverlapEntryTexts ==
    {[numeric |-> TRUE, value |-> -5], [numeric |-> FALSE, value |-> 0]}
CropSizeEntryTexts ==
    {[numeric |-> TRUE, value |-> 200], [numeric |-> FALSE, value |-> 0]}

InitGUI ==
    /\ \E points \in SUBSET GuiPoints :
          /\ ~init_raises(list_of(points))
          /\ screenshots = sort(list_of(points))
          /\ mapped_screenshots = init_mapped(list_of(points))
    /\ TILE_CROP_SIZE \in GuiCropSizes
    /\ TILE_OVERLAP \in GuiOverlaps
    /\ ret = Returned("__init__", <<>>, None)
    /\ pc = "idle"
    /\ tiles = <<>>
    /\ map_image = None
    /\ sorted_tiles = <<>>
    /\ next_tile = 0
    /\ loaded = {}
    /\ saved = None
    /\ tile_files = {}
    /\ output_tiles = [path \in {} |-> None]
    /\ gui = None
    /\ limits = <<-1, -1, -1, -1>>

NextGUI ==
    \/ TileAlignmentGUI__init__
    \/ next_set
    \/ prev_set
    \/ \E value \in SliderOverlaps : on_overlap_change(value)
    \/ \E text \in OverlapEntryTexts : on_overlap_entry_change(text)
    \/ \E value \in SliderCropSizes : on_crop_size_change(value)
    \/ \E text \in CropSizeEntryTexts : on_crop_size_entry_change(text)
    \/ \E direction \in {"Horizontal", "Vertical"} : on_direction_change(direction)
    \/ \E idx \in 0..3 : on_tile_change(idx)
    \/ apply_settings
    \/ reset_to_original
    \/ generate_tiles

SpecGUI == InitGUI /\ [][NextGUI]_vars

----------------------------------------------------------------------------
(* Properties of the registry, checked under Spec *)

same_coordinates(a, b) == a.xCoordWS = b.xCoordWS /\ a.zCoordWS = b.zCoordWS

registered_at(x, z) ==
    {i \in 1..Len(screenshots) :
        screenshots[i].xCoordWS = x /\ screenshots[i].zCoordWS = z}

\* C1: add_screenshot of a tile whose (x, z) is already registered is a
\* no-op: the registry never holds two tiles with the same coordinate pair,
\* and the tile the dict stores under a coordinate is never replaced.
C1_DuplicateAddIsNoOp ==
    [][/\ \A i, j \in 1..Len(screenshots') :
             i # j => ~same_coordinates(screenshots'[i], screenshots'[j])
       /\ \A key \in DOMAIN mapped_screenshots :
             mapped_screenshots'[key] = mapped_screenshots[key]]_vars

\* C2: find_neighbour(t, dx, dz) never raises; it returns a registered tile
\* at exactly (t.x + dx, t.z + dz) when the registry holds one, else None.
C2_FindNeighbour ==
    ret.op = "find_neighbour" =>
        LET x == ret.args[1].xCoordWS + ret.args[2]
            z == ret.args[1].zCoordWS + ret.args[3]
        IN /\ ret.exc = "None"
           /\ IF registered_at(x, z) # {}
              THEN /\ ret.value.type = "Screenshot"
                   /\ \E i \in registered_at(x, z) : screenshots[i] = ret.value
              ELSE ret.value.type = "NoneType"

\* a neighbour was asked for at a non-zero offset and found
C2_Witness ==
    /\ ret.op = "find_neighbour"
    /\ ret.args[2] # 0
    /\ ret.args[3] # ret.args[2]
    /\ ret.value.type = "Screenshot"
    /\ Len(screenshots) >= 2

\* C3: on a registry of two tiles or more, tile_step_size is
\* max(|x0-x1|, |z0-z1|) of the first two tiles in (x, z) order and is
\* strictly positive.
C3_StepSizePositive ==
    (ret.op = "tile_step_size" /\ Len(screenshots) >= 2) =>
        /\ ret.exc = "None"
        /\ ret.value = max2(abs(screenshots[1].xCoordWS - screenshots[2].xCoordWS),
                            abs(screenshots[1].zCoordWS - screenshots[2].zCoordWS))
        /\ ret.value > 0

\* C4: min_x, max_x, min_z and max_z raise on a registry without tiles and
\* return the least / greatest coordinate of the registered tiles otherwise.
C4_Bounds ==
    ret.op \in BoundOps =>
        IF screenshots = <<>> THEN ret.exc = "ValueError"
        ELSE LET axis == IF ret.op \in {"min_x", "max_x"} THEN xs(screenshots)
                         ELSE zs(screenshots)
                 least == ret.op \in {"min_x", "min_z"}
             IN /\ ret.exc = "None"
                /\ \E i \in DOMAIN axis : axis[i] = ret.value
                /\ \A i \in DOMAIN axis :
                      IF least THEN ret.value <= axis[i] ELSE ret.value >= axis[i]

\* min_z was asked of a registry whose tiles differ in x and in z, the least
\* z being different from the least x
C4_Witness ==
    /\ ret.op = "min_z"
    /\ ret.exc = "None"
    /\ Len(screenshots) >= 2
    /\ \E i, j \in 1..Len(screenshots) :
          screenshots[i].zCoordWS # screenshots[j].zCoordWS
    /\ \E i \in 1..Len(screenshots) : screenshots[i].xCoordWS < ret.value

----------------------------------------------------------------------------
(* Properties of the compositor *)

x_set(list) == {list[i].xCoordWS : i \in 1..Len(list)}
z_set(list) == {list[i].zCoordWS : i \in 1..Len(list)}

least(S) == CHOOSE v \in S : \A w \in S : v <= w
greatest(S) == CHOOSE v \in S : \A w \in S : v >= w

evenly_spaced(S, d) ==
    S = {least(S) + i * d : i \in 0..(Cardinality(S) - 1)}

\* the list holds each point of an m x n grid of one spacing exactly once
complete_grid(list) ==
    /\ list # <<>>
    /\ \A i, j \in 1..Len(list) : i # j => ~same_coordinates(list[i], list[j])
    /\ Len(list) = Cardinality(x_set(list)) * Cardinality(z_set(list))
    /\ \E d \in 1..(1 + greatest(x_set(list) \cup z_set(list))
                      - least(x_set(list) \cup z_set(list))) :
          evenly_spaced(x_set(list), d) /\ evenly_spaced(z_set(list), d)

grid_m == Cardinality(x_set(screenshots))
grid_n == Cardinality(z_set(screenshots))

\* C5: compositing all tiles of a complete m x n grid with overlap 0 gives a
\* canvas of m*cropSize by n*cropSize pixels, for every m >= 1 and n >= 1.
C5_GridCanvas ==
    (pc # "idle" /\ TILE_OVERLAP = 0 /\ complete_grid(screenshots)) =>
        /\ map_image.type = "Image"
        /\ map_image.size = <<grid_m * TILE_CROP_SIZE, grid_n * TILE_CROP_SIZE>>

floor_unit_range(S, step) == ((greatest(S) - least(S)) \div step) + 1

\* C7: for every non-empty tile subset and every signed overlap the
\* compositor builds a canvas of unitRange*cropSize + (unitRange-1)*overlap
\* pixels per axis, unitRange = floor((max - min) / stepSize) + 1.
C7_CanvasSize ==
    (pc # "idle" /\ tiles # <<>>) =>
        /\ map_image.type = "Image"
        /\ LET step == tile_step_size(screenshots)
               xr == floor_unit_range(x_set(tiles), step)
               zr == floor_unit_range(z_set(tiles), step)
           IN map_image.size =
                <<xr * TILE_CROP_SIZE + (xr - 1) * TILE_OVERLAP,
                  zr * TILE_CROP_SIZE + (zr - 1) * TILE_OVERLAP>>

\* the grid unit of a tile of the composited subset, rounded down
unit_x(tile) ==
    (tile.xCoordWS - least(x_set(tiles))) \div tile_step_size(screenshots)
unit_z(tile) ==
    (tile.zCoordWS - least(z_set(tiles))) \div tile_step_size(screenshots)
flipped_z(tile) ==
    floor_unit_range(z_set(tiles), tile_step_size(screenshots)) - unit_z(tile) - 1

\* C8: every tile is pasted at (ux*crop + ux*overlap, uz'*crop + uz'*overlap)
\* with uz' = zUnitRange - uz - 1, so tiles one grid unit apart on an axis
\* are pasted crop + overlap pixels apart on it; a composite that completes
\* has pasted every tile of the subset.
C8_PasteOrigin ==
    map_image.type = "Image" =>
        LET pastes == map_image.pastes
        IN /\ \A i \in 1..Len(pastes) :
                pastes[i].at =
                    <<unit_x(pastes[i].tile) * TILE_CROP_SIZE
                        + unit_x(pastes[i].tile) * TILE_OVERLAP,
                      flipped_z(pastes[i].tile) * TILE_CROP_SIZE
                        + flipped_z(pastes[i].tile) * TILE_OVERLAP>>
           /\ \A i, j \in 1..Len(pastes) :
                /\ unit_x(pastes[j].tile) = unit_x(pastes[i].tile) + 1 =>
                      pastes[j].at[1] - pastes[i].at[1] = TILE_CROP_SIZE + TILE_OVERLAP
                /\ unit_z(pastes[j].tile) = unit_z(pastes[i].tile) + 1 =>
                      pastes[i].at[2] - pastes[j].at[2] = TILE_CROP_SIZE + TILE_OVERLAP
           /\ (pc = "done" /\ ret.exc = "None") =>
                /\ Len(pastes) = Len(tiles)
                /\ \A i \in 1..Len(tiles) : \E j \in 1..Len(pastes) : pastes[j].tile = tiles[i]

\* a composite with a non-zero overlap has pasted tiles at unit 1 or more on
\* both axes
C8_Witness ==
    /\ map_image.type = "Image"
    /\ TILE_OVERLAP # 0
    /\ \E i, j \in 1..Len(map_image.pastes) :
          /\ unit_x(map_image.pastes[j].tile) = unit_x(map_image.pastes[i].tile) + 1
          /\ flipped_z(map_image.pastes[j].tile) >= 1

\* every tile of least world z is pasted in the bottom row of the canvas and
\* every tile of greatest world z at y = 0
z_inversion ==
    map_image.type = "Image" =>
        \A i \in 1..Len(map_image.pastes) :
            LET p == map_image.pastes[i]
            IN /\ p.tile.zCoordWS = least(z_set(tiles)) =>
                     p.at[2] + TILE_CROP_SIZE = map_image.size[2]
               /\ p.tile.zCoordWS = greatest(z_set(tiles)) => p.at[2] = 0

scenario_2x2 ==
    /\ Len(screenshots) = 4
    /\ x_set(screenshots) = {0, 100}
    /\ z_set(screenshots) = {0, 100}
    /\ TILE_CROP_SIZE = 50
    /\ TILE_OVERLAP = 0

\* C9: for any composited tile set and any overlap the tiles of least world
\* z are pasted in the bottom row (paste y + cropSize = canvas height) and
\* those of greatest world z at y = 0; in the 2 x 2 scenario (step 100,
\* crop 50) tile (0, 0) is pasted at pixel (0, 50).
C9_ZInversion ==
    /\ z_inversion
    /\ (scenario_2x2 /\ map_image.type = "Image") =>
          \A i \in 1..Len(map_image.pastes) :
              (map_image.pastes[i].tile.xCoordWS = 0 /\ map_image.pastes[i].tile.zCoordWS = 0)
                  => map_image.pastes[i].at = <<0, 50>>

\* the 2 x 2 scenario has been composited to its end
C9_Witness ==
    /\ scenario_2x2
    /\ pc = "done"
    /\ saved.type = "Image"
    /\ Len(saved.pastes) = 4
    /\ \E i \in 1..4 : saved.pastes[i].at = <<0, 50>>

covering(pastes, px, py) ==
    {i \in 1..Len(pastes) : covers(pastes[i].at, tile_image_size(pastes[i].tile), px, py)}

\* C10: tiles are pasted in ascending (x, z) order whatever the order of the
\* input list, and a canvas pixel covered by several tiles shows a covering
\* tile that none of the others exceeds in (x, z) order.
C10_PasteOrder ==
    map_image.type = "Image" =>
        LET pastes == map_image.pastes
        IN /\ \A i, j \in 1..Len(pastes) :
                i < j => ~key_less(pastes[j].tile, pastes[i].tile)
           /\ \A px \in 0..(map_image.size[1] - 1), py \in 0..(map_image.size[2] - 1) :
                covering(pastes, px, py) # {} =>
                    /\ shown(pastes, px, py).type = "Screenshot"
                    /\ \A i \in covering(pastes, px, py) :
                          ~key_less(shown(pastes, px, py), pastes[i].tile)

\* a list given out of order has been composited to its end and two tiles
\* at different coordinates cover a common pixel of the canvas
C10_Witness ==
    /\ pc = "done"
    /\ saved.type = "Image"
    /\ tiles # sorted(tiles)
    /\ \E px \in 0..(saved.size[1] - 1), py \in 0..(saved.size[2] - 1) :
          \E i, j \in covering(saved.pastes, px, py) :
              ~same_coordinates(saved.pastes[i].tile, saved.pastes[j].tile)

----------------------------------------------------------------------------
(* Failures of the compositor, checked under SpecComposite *)

\* C12: composite_screenshot_tiles called with an empty list of tiles fails
\* with an error, and no output image is created or saved.
C12_EmptyInput ==
    (pc = "done" /\ tiles = <<>>)
        => /\ ret.op = "composite_screenshot_tiles"
           /\ ret.exc # "None"
           /\ map_image = None
           /\ saved = None

\* the empty selection of a registry that has a step size
C12_Witness ==
    /\ pc = "done"
    /\ tiles = <<>>
    /\ Len(screenshots) >= 2
    /\ ret = Raised("composite_screenshot_tiles", <<tiles>>, "ValueError")

\* C13: when the image of a tile cannot be loaded the composite fails as a
\* whole: the output file is written only after every tile was pasted, a run
\* that ends before that ends with an error and without an output file, and
\* the registry's list and coordinate map are what they were before the call.
C13_LoadFailure ==
    [][pc = "pasting"
         => /\ registry' = registry
            /\ saved' # saved
                 => /\ Len(map_image.pastes) = Len(tiles)
                    /\ ret'.exc = "None"
            /\ (pc' = "done" /\ Len(map_image.pastes) < Len(tiles))
                 => /\ ret'.exc # "None"
                    /\ saved' = None]_vars

\* the second or third tile of a composite failed to load
C13_Witness ==
    /\ pc = "done"
    /\ ret.exc = "FileNotFoundError"
    /\ Len(map_image.pastes) >= 1
    /\ saved = None
    /\ screenshots # <<>>

----------------------------------------------------------------------------
(* Coverage of the canvas, checked under SpecGrid *)

\* a complete grid of two tiles or more whose spacing is the step size, tile
\* images of TILE_CROP_SIZE pixels a side, 0 <= -TILE_OVERLAP < TILE_CROP_SIZE
calibrated_grid ==
    /\ complete_grid(screenshots)
    /\ ~step_raises(screenshots)
    /\ evenly_spaced(x_set(screenshots), tile_step_size(screenshots))
    /\ evenly_spaced(z_set(screenshots), tile_step_size(screenshots))
    /\ \A i \in 1..Len(screenshots) :
          tile_image_size(screenshots[i]) = <<TILE_CROP_SIZE, TILE_CROP_SIZE>>
    /\ TILE_OVERLAP <= 0
    /\ abs(TILE_OVERLAP) < TILE_CROP_SIZE

\* the pasted image lies inside a canvas of the given size
inside(at, image_size, canvas_size) ==
    /\ 0 <= at[1] /\ at[1] + image_size[1] <= canvas_size[1]
    /\ 0 <= at[2] /\ at[2] + image_size[2] <= canvas_size[2]

\* C16: the composite of a calibrated complete grid has no gaps and no
\* overflow: every pixel of the saved canvas is covered by a pasted tile and
\* every pasted tile lies entirely inside the canvas.
C16_NoGapsNoOverflow ==
    (saved # None /\ calibrated_grid)
        => /\ \A px \in 0..(saved.size[1] - 1), py \in 0..(saved.size[2] - 1) :
                 shown(saved.pastes, px, py) # None
           /\ \A i \in 1..Len(saved.pastes) :
                 inside(saved.pastes[i].at, tile_image_size(saved.pastes[i].tile), saved.size)

\* the full lattice composited with overlapping tiles
C16_Witness ==
    /\ saved # None
    /\ calibrated_grid
    /\ TILE_OVERLAP < 0
    /\ grid_m >= 2
    /\ grid_n >= 2
    /\ Len(saved.pastes) = grid_m * grid_n

----------------------------------------------------------------------------
(* Configuration errors, checked under SpecConfig *)

non_positive_configuration ==
    \/ TILE_CROP_SIZE <= 0
    \/ ~step_raises(screenshots) /\ tile_step_size(screenshots) <= 0

\* C14: under a non-positive crop size or step size the compositing run
\* aborts with an error before any tile image is loaded (nothing is ever
\* pasted) and before any file is written.
C14_ConfigurationError ==
    (pc # "idle" /\ non_positive_configuration)
        => /\ map_image # None => map_image.pastes = <<>>
           /\ saved = None
           /\ pc = "done" => ret.exc # "None"

----------------------------------------------------------------------------
(* Coordinate normalisation, checked under SpecUnit *)

\* C15: for every coord, minCoord and stepSize > 0 (coord < minCoord
\* included) get_unit_coordinates returns floor((coord - minCoord) / stepSize)
\* on each axis; for stepSize <= 0 it fails with an error and returns nothing.
C15_FloorNormalisation ==
    ret.op = "get_unit_coordinates"
        => LET self == ret.args[1]
               minx == ret.args[2]
               minz == ret.args[3]
               step == ret.args[4]
           IN IF step > 0
              THEN /\ ret.exc = "None"
                   /\ ret.value = <<(self.xCoordWS - minx) \div step,
                                    (self.zCoordWS - minz) \div step>>
              ELSE ret.exc # "None"

----------------------------------------------------------------------------
(* Row matching, checked under SpecMatch *)

\* C18: find_best_matching_row returns (bestIndex, bestScore, scores) where
\* scores holds one entry per row of the target image, in row order,
\* bestScore is scores[bestIndex] and the greatest score, and bestIndex is
\* the smallest row index that attains it (0 when every row is degenerate).
C18_BestMatch ==
    (ret.op = "find_best_matching_row" /\ ret.exc = "None")
        => LET source_array == ret.args[1]
               source_row == source_array.data[ret.args[2] + 1]
               target_array == ret.args[3]
               bestIndex == ret.value[1]
               bestScore == ret.value[2]
               scores == ret.value[3]
           IN /\ Len(scores) = Len(target_array.data)
              /\ \A i \in 1..Len(scores) :
                    scores[i] = row_score(source_array.ndim, source_row, target_array.data[i])
              /\ bestIndex \in 0..(Len(scores) - 1)
              /\ bestScore = scores[bestIndex + 1]
              /\ \A i \in 1..Len(scores) : ~frac_less(bestScore, scores[i])
              /\ \A i \in 1..bestIndex : frac_less(scores[i], bestScore)
              /\ (\A i \in 1..Len(scores) : scores[i].n = 0) => bestIndex = 0

\* two target rows tie at a score between 0 and 1: the first one is returned
C18_Witness ==
    /\ ret.op = "find_best_matching_row"
    /\ ret.exc = "None"
    /\ Len(ret.value[3]) = 2
    /\ frac_equal(ret.value[3][1], ret.value[3][2])
    /\ frac_less(frac(0, 1), ret.value[2])
    /\ frac_less(ret.value[2], frac(1, 1))
    /\ ret.value[1] = 0

----------------------------------------------------------------------------
(* Properties of the script's run, checked under SpecMain *)

\* C11: at every point of the run (make_tiles followed by make_large_map
\* included) at most one tile holds a loaded image payload, and once the
\* composite has completed no composited tile holds one.
C11_OnePayloadAtATime ==
    /\ Cardinality(loaded) <= 1
    /\ (pc = "done" /\ ret.op = "composite_screenshot_tiles" /\ ret.exc = "None")
          => \A i \in 1..Len(tiles) : tiles[i] \notin loaded

\* what composite_screenshot_tiles pastes, in order, when given the list ts
composite_pastes(ts, list, crop, overlap) ==
    [i \in 1..Len(ts) |->
        [tile |-> sorted_tiles_of(ts)[i],
         at |-> paste_tile_coord(sorted_tiles_of(ts)[i], ts, tile_step_size(list),
                                 crop, overlap)]]

\* the lists that hold the entries of ts in another order
reorderings(ts) == {q \in sub_lists(ts) : Len(q) = Len(ts)}

\* C19: the composite depends only on the set of tiles, the crop size and
\* the overlap: given the tiles in any other order (as listed in the input or
\* as added to the registry) it builds the same canvas, with the same paste
\* origins in the same paste order.
C19_OrderIndependent ==
    saved # None
        => \A q \in reorderings(tiles) :
              /\ composite_raises(q, sort(q), TILE_CROP_SIZE, TILE_OVERLAP) = "None"
              /\ composite_pastes(q, sort(q), TILE_CROP_SIZE, TILE_OVERLAP) = saved.pastes
              /\ <<output_image_size(x_unit_range(q, tile_step_size(sort(q))),
                                     TILE_CROP_SIZE, TILE_OVERLAP),
                    output_image_size(z_unit_range(q, tile_step_size(sort(q))),
                                     TILE_CROP_SIZE, TILE_OVERLAP)>> = saved.size

\* C20: make_initial_tiles maps the tiles to output paths injectively: two
\* registry tiles at different grid positions get different paths, so no tile
\* is passed over because the file of another tile occupies its path.
C20_InjectivePaths ==
    ret = Returned("make_initial_tiles", <<>>, None)
        => /\ \A i, j \in 1..Len(screenshots) :
                 ~same_coordinates(screenshots[i], screenshots[j])
                    => output_tile_path(screenshots[i], tile_step_size(screenshots), 0)
                         # output_tile_path(screenshots[j], tile_step_size(screenshots), 0)
           /\ \A i \in 1..Len(screenshots) :
                 LET path == output_tile_path(screenshots[i], tile_step_size(screenshots), 0)
                 IN /\ path \in DOMAIN output_tiles
                    /\ same_coordinates(output_tiles[path], screenshots[i])

----------------------------------------------------------------------------
(* Properties of the alignment GUI, checked under SpecGUI *)

\* C21: the overlap and crop size explored in the GUI are a working copy.
\* Opening the GUI, slider and entry changes, direction and tile selection,
\* next_set, prev_set and reset_to_original leave TILE_OVERLAP and
\* TILE_CROP_SIZE unchanged; apply_settings and generate_tiles set
\* TILE_OVERLAP to the negated working overlap and TILE_CROP_SIZE to the
\* working crop size.
C21_WorkingCopy ==
    [][IF ret'.op \in {"apply_settings", "generate_tiles"}
       THEN /\ TILE_OVERLAP' = 0 - gui.overlap_var
            /\ TILE_CROP_SIZE' = gui.crop_size_var
            /\ gui' = gui
       ELSE config' = config]_vars

\* settings explored away from those found at start-up, then applied
C21_Witness ==
    /\ gui # None
    /\ ret.op = "apply_settings"
    /\ TILE_CROP_SIZE = gui.crop_size_var
    /\ TILE_CROP_SIZE # gui.original_crop_size
    /\ TILE_OVERLAP = 0 - gui.overlap_var
    /\ TILE_OVERLAP # gui.original_overlap

\* C22: opening the GUI and applying the settings with every control at the
\* value the constructor (or reset_to_original) gave it restores the
\* configuration: TILE_OVERLAP and TILE_CROP_SIZE equal the values they had
\* before the GUI was opened, which the GUI keeps in original_overlap and
\* original_crop_size.
C22_RoundTrip ==
    (/\ gui # None
     /\ ret.op = "apply_settings"
     /\ gui.overlap_var = abs(gui.original_overlap)
     /\ gui.crop_size_var = gui.original_crop_size)
    => /\ TILE_OVERLAP = gui.original_overlap
       /\ TILE_CROP_SIZE = gui.original_crop_size

\* C23: after any sequence of GUI operations the current tile has a
\* registered neighbour in the selected direction, current_set_index is the
\* index of the valid tile set of the current tile, and get_info_text has
\* not dereferenced a missing neighbour.
C23_NeighbourInvariant ==
    gui # None =>
        /\ get_neighbor_for_current_direction(gui) # None
        /\ \E i \in 1..Len(screenshots) :
              screenshots[i] = get_neighbor_for_current_direction(gui)
        /\ gui.current_set_index \in 0..(Len(gui.valid_tile_sets) - 1)
        /\ gui.valid_tile_sets[gui.current_set_index + 1].tile = gui.current_tile
        /\ ret.exc # "AttributeError"

\* where the second paste of an image lies relative to the first
preview_offset(image) ==
    <<image.pastes[2].at[1] - image.pastes[1].at[1],
      image.pastes[2].at[2] - image.pastes[1].at[2]>>

\* where composite_screenshot_tiles pastes neighbor relative to current when
\* it composites the two of them
compositor_offset(current, neighbor, step, crop, overlap) ==
    LET ts == <<current, neighbor>>
        c == paste_tile_coord(current, ts, step, crop, overlap)
        n == paste_tile_coord(neighbor, ts, step, crop, overlap)
    IN <<n[1] - c[1], n[2] - c[2]>>

compositor_size(current, neighbor, step, crop, overlap) ==
    LET ts == <<current, neighbor>>
    IN <<output_image_size(x_unit_range(ts, step), crop, overlap),
         output_image_size(z_unit_range(ts, step), crop, overlap)>>

\* C24: the preview agrees with the compositor.  Whenever update_preview
\* builds an image for slider overlap v, the offset of the neighbour from the
\* current tile and the size of the preview equal the offset and the canvas
\* size composite_screenshot_tiles gives the same two tiles with
\* TILE_OVERLAP = -v and TILE_CROP_SIZE the side of the tile images.
C24_PreviewAgrees ==
    (gui # None /\ update_preview(gui).type = "Image") =>
        LET image == update_preview(gui)
            current == gui.current_tile
            neighbor == get_neighbor_for_current_direction(gui)
            step == tile_step_size(screenshots)
            crop == tile_image_size(current)[1]
            overlap == 0 - gui.overlap_var
        IN /\ preview_offset(image) = compositor_offset(current, neighbor, step, crop, overlap)
           /\ image.size = compositor_size(current, neighbor, step, crop, overlap)

----------------------------------------------------------------------------
(* Properties of make_large_map, checked under SpecLargeMap *)

starts_only ==
    /\ limits[3] = -1 /\ limits[4] = -1
    /\ limits[1] > 0 \/ limits[2] > 0
    /\ limits[1] > 0 \/ limits[1] = -1
    /\ limits[2] > 0 \/ limits[2] = -1

not_below_starts(screenshot) ==
    /\ limits[1] > 0 => screenshot.xCoordWS >= limits[1]
    /\ limits[2] > 0 => screenshot.zCoordWS >= limits[2]

\* C25: once make_large_map has been called, the tiles handed to the
\* compositor are every tile of the registry when all four limits are
\* negative, and exactly the registry tiles whose x and z are not below the
\* given starts when only start coordinates are given.
C25_LargeMapSelection ==
    pc # "idle" =>
        /\ (\A k \in 1..4 : limits[k] < 0) => tiles = screenshots
        /\ starts_only => tiles = SelectSeq(screenshots, not_below_starts)

----------------------------------------------------------------------------
(* Consistency of the registry, checked under Spec *)

\* C26: after construction and after any sequence of add_screenshot calls
\* the tile list and the coordinate map describe the same tiles: they have
\* the same size, every listed tile is the value the map stores under the
\* tile's coordinate key, and no two listed tiles share a coordinate pair.
C26_RegistryConsistent ==
    /\ Len(screenshots) = Cardinality(DOMAIN mapped_screenshots)
    /\ \A i \in 1..Len(screenshots) :
          /\ coordinate_string(screenshots[i]) \in DOMAIN mapped_screenshots
          /\ mapped_screenshots[coordinate_string(screenshots[i])] = screenshots[i]
    /\ \A i, j \in 1..Len(screenshots) :
          i # j => ~same_coordinates(screenshots[i], screenshots[j])

====
